---- MODULE Spec2Model ----
(***************************************************************************)
(* Model of the `matrix` crate (src/src/lib.rs): the statically            *)
(* dimensioned Matrix<C, ROWS, COLS> and its operations, instantiated with *)
(* the coefficient type of the crate's tests, u8 (src/tests/op_tests.rs).  *)
(*                                                                         *)
(* A matrix value is the record [data |-> d] (struct Matrix { data }),     *)
(* d a function 0..ROWS-1 -> (0..COLS-1 -> u8): Rust arrays are 0-based.   *)
(* ROWS and COLS are type parameters and are not stored; the model reads   *)
(* them off the shape of `data`.                                           *)
(*                                                                         *)
(* u8 arithmetic depends on the build profile: with overflow checks (the   *)
(* debug/test profile) an overflowing +, * or sum() panics, without them   *)
(* (the release profile) it wraps modulo 2^8.  The profile is the          *)
(* variable overflow_checks, chosen in Init and never changed.             *)
(***************************************************************************)
EXTENDS Integers, FiniteSets, Sequences, TLC

\* ----------------------------------------------------------------- bounds
\* Largest ROWS / COLS / SIZE of the matrices explored.
MaxDim == 3
\* Number of method calls made on the matrix after its construction.
MaxSteps == 1

\* u8: values 0 .. 2^8 - 1
U8Modulus == 256
\* A cell of the MaybeUninit staging buffer of `mul` that was never written.
Uninit == -1

VARIABLES
    m,                \* the matrix the program holds (`self`)
    prev,             \* `m` just before the last call
    calls,            \* the calls made so far, the constructor first
    ret,              \* what the last call returned
    overflow_checks   \* build profile: TRUE = overflow checks on (debug)

vars == <<m, prev, calls, ret, overflow_checks>>

\* ---------------------------------------------------------------- shapes
Size(f) == Cardinality(DOMAIN f)
ROWS(self) == Size(self.data)
COLS(self) == Size(self.data[0])
IsSquare(self) == ROWS(self) = COLS(self)

\* ------------------------------------------------------- u8 arithmetic
add_overflows(a, b) == overflow_checks /\ a + b >= U8Modulus
wrapping_add(a, b) == (a + b) % U8Modulus
mul_overflows(a, b) == overflow_checks /\ a * b >= U8Modulus
wrapping_mul(a, b) == (a * b) % U8Modulus

\* ------------------------------------------------------- return values
Ok == [result |-> "Ok"]
OutOfBounds == [result |-> "OutOfBounds"]
WrongOperation == [result |-> "WrongOperation"]
Panic == [result |-> "Panic"]
Some(v) == [result |-> "Some", val |-> v]
None == [result |-> "None"]

\* slice::get
slice_get(s, index) == IF index < Size(s) THEN Some(s[index]) ELSE None

\* ------------------------------------------------- construction, access
from(array) == [data |-> array]

\* Mutant of get: the two indices exchanged.
get_swapped(self, row, col) ==
    LET line == slice_get(self.data, col)
    IN  IF line.result = "None" THEN None ELSE slice_get(line.val, row)

get(self, row, col) ==
    LET line == slice_get(self.data, row)
    IN  IF line.result = "None" THEN None ELSE slice_get(line.val, col)

nil(SIZE) == from([i \in 0..(SIZE - 1) |-> [j \in 0..(SIZE - 1) |-> 0]])

RECURSIVE identity_loop(_, _, _)
identity_loop(self, i, SIZE) ==
    IF i >= SIZE THEN self
    ELSE identity_loop([self EXCEPT !.data[i][i] = 1], i + 1, SIZE)

identity(SIZE) == identity_loop(nil(SIZE), 0, SIZE)

\* --------------------------------------------------- *= scalar (l.97-108)
\* Each loop returns [data: the storage as the loop left it,
\*                    panicked: an arithmetic overflow aborted it].
RECURSIVE mul_assign_loop(_, _, _, _)
mul_assign_loop(d, coef, row, col) ==
    IF row >= Size(d) THEN [data |-> d, panicked |-> FALSE]
    ELSE IF col >= Size(d[row]) THEN mul_assign_loop(d, coef, row + 1, 0)
    ELSE IF mul_overflows(d[row][col], coef) THEN [data |-> d, panicked |-> TRUE]
    ELSE mul_assign_loop([d EXCEPT ![row][col] = wrapping_mul(@, coef)],
                         coef, row, col + 1)

mul_assign(self, coef) ==
    LET r == mul_assign_loop(self.data, coef, 0, 0)
    IN  [m |-> [data |-> r.data], ret |-> IF r.panicked THEN Panic ELSE Ok]

\* --------------------------------------------------- += matrix (l.111-127)
RECURSIVE add_assign_loop(_, _, _, _)
add_assign_loop(d, other, row, col) ==
    IF row >= Size(d) \/ row >= Size(other.data) THEN [data |-> d, panicked |-> FALSE]
    ELSE IF col >= Size(d[row]) \/ col >= Size(other.data[row])
         THEN add_assign_loop(d, other, row + 1, 0)
    ELSE IF add_overflows(d[row][col], other.data[row][col])
         THEN [data |-> d, panicked |-> TRUE]
    ELSE add_assign_loop([d EXCEPT ![row][col] = wrapping_add(@, other.data[row][col])],
                         other, row, col + 1)

add_assign(self, other) ==
    LET r == add_assign_loop(self.data, other, 0, 0)
    IN  [m |-> [data |-> r.data], ret |-> IF r.panicked THEN Panic ELSE Ok]

\* ------------------------------------------------ matrix product (l.158-183)
\* self.data[row].iter().enumerate().map(|(j, a)| a * other.data[j][col]).sum():
\* the iterator is lazy, so term j is multiplied and then added to the
\* accumulator (which starts at 0) before term j + 1 is looked at.
\* Mutant of mul_sum: the last term of the sum is left out.
RECURSIVE mul_sum_short(_, _, _, _, _)
mul_sum_short(line, other, col, j, acc) ==
    IF j >= Size(line) - 1 THEN [val |-> acc, panicked |-> FALSE]
    ELSE IF mul_overflows(line[j], other.data[j][col])
         THEN [val |-> acc, panicked |-> TRUE]
    ELSE LET term == wrapping_mul(line[j], other.data[j][col])
         IN  IF add_overflows(acc, term) THEN [val |-> acc, panicked |-> TRUE]
             ELSE mul_sum_short(line, other, col, j + 1, wrapping_add(acc, term))

RECURSIVE mul_sum(_, _, _, _, _)
mul_sum(line, other, col, j, acc) ==
    IF j >= Size(line) THEN [val |-> acc, panicked |-> FALSE]
    ELSE IF mul_overflows(line[j], other.data[j][col])
         THEN [val |-> acc, panicked |-> TRUE]
    ELSE LET term == wrapping_mul(line[j], other.data[j][col])
         IN  IF add_overflows(acc, term) THEN [val |-> acc, panicked |-> TRUE]
             ELSE mul_sum(line, other, col, j + 1, wrapping_add(acc, term))

\* for row in 0..ROWS { for col in 0..COLS { m[row][col].write(sum) } }
RECURSIVE mul_loop(_, _, _, _, _)
mul_loop(self, other, buf, row, col) ==
    IF row >= ROWS(self) THEN [data |-> buf, panicked |-> FALSE]
    ELSE IF col >= COLS(other) THEN mul_loop(self, other, buf, row + 1, 0)
    ELSE LET s == mul_sum(self.data[row], other, col, 0, 0)
         IN  IF s.panicked THEN [data |-> buf, panicked |-> TRUE]
             ELSE mul_loop(self, other, [buf EXCEPT ![row][col] = s.val],
                           row, col + 1)

\* The staging buffer starts uninitialised and is transmuted into the result
\* after the loops.  A panic unwinds out of mul: nothing is returned and the
\* operands, taken by value, are gone; the model keeps `self` as it was.
mul(self, other) ==
    LET buf == [row \in 0..(ROWS(self) - 1) |->
                   [col \in 0..(COLS(other) - 1) |-> Uninit]]
        r == mul_loop(self, other, buf, 0, 0)
    IN  IF r.panicked THEN [m |-> self, ret |-> Panic]
        ELSE [m |-> [data |-> r.data], ret |-> Ok]

\* ------------------------------------------------ row operations (l.225-280)
\* slice::swap panics when an index is out of range.
slice_swap(s, a, b) ==
    [panicked |-> ~(a < Size(s) /\ b < Size(s)),
     data |-> IF a < Size(s) /\ b < Size(s)
              THEN [i \in DOMAIN s |-> IF i = a THEN s[b] ELSE IF i = b THEN s[a] ELSE s[i]]
              ELSE s]

\* Mutant of permute: only `target` is checked against SIZE.
permute_unchecked_source(self, source, target) ==
    LET SIZE == ROWS(self)
    IN  IF target >= SIZE
        THEN [m |-> self, ret |-> OutOfBounds]
        ELSE LET r == slice_swap(self.data, source, target)
             IN  [m |-> [data |-> r.data], ret |-> IF r.panicked THEN Panic ELSE Ok]

permute(self, source, target) ==
    LET SIZE == ROWS(self)
    IN  IF (target >= SIZE) \/ (source >= SIZE)
        THEN [m |-> self, ret |-> OutOfBounds]
        ELSE LET r == slice_swap(self.data, source, target)
             IN  [m |-> [data |-> r.data], ret |-> IF r.panicked THEN Panic ELSE Ok]

\* line.iter_mut().for_each(|c| *c *= factor)
RECURSIVE dilate_loop(_, _, _)
dilate_loop(line, factor, j) ==
    IF j >= Size(line) THEN [line |-> line, panicked |-> FALSE]
    ELSE IF mul_overflows(line[j], factor) THEN [line |-> line, panicked |-> TRUE]
    ELSE dilate_loop([line EXCEPT ![j] = wrapping_mul(@, factor)], factor, j + 1)

dilate(self, row, factor) ==
    LET line == slice_get(self.data, row)
    IN  IF line.result = "None" THEN [m |-> self, ret |-> OutOfBounds]
        ELSE LET r == dilate_loop(line.val, factor, 0)
             IN  [m |-> [self EXCEPT !.data[row] = r.line],
                  ret |-> IF r.panicked THEN Panic ELSE Ok]

\* slice::split_at_mut(mid): the two halves, each indexed from 0.
split_at_mut(s, mid) ==
    <<[i \in 0..(mid - 1) |-> s[i]], [i \in 0..(Size(s) - mid - 1) |-> s[mid + i]]>>

\* begin.iter_mut().enumerate().for_each(|(i, c)| *c += &end[i])
RECURSIVE transvect_loop(_, _, _)
transvect_loop(begin, end, i) ==
    IF i >= Size(begin) THEN [line |-> begin, panicked |-> FALSE]
    ELSE IF add_overflows(begin[i], end[i]) THEN [line |-> begin, panicked |-> TRUE]
    ELSE transvect_loop([begin EXCEPT ![i] = wrapping_add(@, end[i])], end, i + 1)

\* A place in one of the two halves is <<half, index>>, half 0 or 1; the
\* halves are views of self.data, so a write through a place lands at the
\* row place_row gives.
place_row(mid, place) == IF place[1] = 0 THEN place[2] ELSE mid + place[2]

\* Mutant of transvect: the rows are added by index before `other == source`
\* is tested, so a rejected call has already doubled the row.
transvect_checks_late(self, source, other) ==
    LET SIZE == ROWS(self)
    IN  IF (other >= SIZE) \/ (source >= SIZE) THEN [m |-> self, ret |-> OutOfBounds]
        ELSE LET r == transvect_loop(self.data[source], self.data[other], 0)
                 after == [self EXCEPT !.data[source] = r.line]
             IN  IF r.panicked THEN [m |-> after, ret |-> Panic]
                 ELSE IF other = source THEN [m |-> after, ret |-> WrongOperation]
                 ELSE [m |-> after, ret |-> Ok]

transvect(self, source, other) ==
    LET SIZE == ROWS(self)
    IN  IF (other >= SIZE) \/ (source >= SIZE) THEN [m |-> self, ret |-> OutOfBounds]
        ELSE IF other = source THEN [m |-> self, ret |-> WrongOperation]
        ELSE LET mid == IF source >= other THEN source ELSE other
                 slices == split_at_mut(self.data, mid)
                 places == IF source > other
                           THEN <<(<<1, 0>>), (<<0, other>>)>>
                           ELSE <<(<<0, source>>), (<<1, 0>>)>>
                 begin == slices[places[1][1] + 1][places[1][2]]
                 end == slices[places[2][1] + 1][places[2][2]]
                 r == transvect_loop(begin, end, 0)
             IN  [m |-> [self EXCEPT !.data[place_row(mid, places[1])] = r.line],
                  ret |-> IF r.panicked THEN Panic ELSE Ok]

\* ---------------------------------------------------------------- inputs
\* The nested-array literals the program is run on: the fixtures of
\* tests/op_tests.rs and arrays of the same affine shape,
\* d[i][j] = a + b*i + c*j (mod 2^8), for the seeds <<a, b, c>> below.
\* <<1, 2, 1>> is setup_3x2, <<9, 253, 255>> is setup_2x3, <<200, 2, 1>>
\* holds coefficients whose sums and products leave u8.
Seeds == {<<1, 2, 1>>, <<9, 253, 255>>, <<200, 2, 1>>}

affine(r, k, s) ==
    [i \in 0..(r - 1) |-> [j \in 0..(k - 1) |-> (s[1] + s[2] * i + s[3] * j) % U8Modulus]]

setup_3x3 ==
    [i \in 0..2 |-> [j \in 0..2 |->
        (<<(<<1, 2, 1>>), (<<3, 4, 1>>), (<<1, 5, 6>>)>>)[i + 1][j + 1]]]

Arrays(r, k) ==
    {affine(r, k, s) : s \in Seeds} \cup (IF r = 3 /\ k = 3 THEN {setup_3x3} ELSE {})

\* ROWS, COLS and SIZE explored.  Matrices with a zero dimension hold no
\* coefficient and are left out.
Dims == 1..MaxDim
\* Row and column indices passed to the calls: every valid one and SIZE itself.
Indices(n) == 0..n
\* Scalars passed to *= and dilate.
Factors == {0, 1, 2}

\* ------------------------------------------------------------------ Init
Init ==
    /\ overflow_checks \in BOOLEAN
    /\ \/ \E r \in Dims, k \in Dims : \E d \in Arrays(r, k) :
            /\ m = from(d)
            /\ calls = <<[op |-> "from", array |-> d]>>
       \/ \E n \in Dims :
            /\ m = identity(n)
            /\ calls = <<[op |-> "identity", SIZE |-> n]>>
       \/ \E n \in Dims :
            /\ m = nil(n)
            /\ calls = <<[op |-> "nil", SIZE |-> n]>>
    /\ prev = m
    /\ ret = Ok

\* --------------------------------------------------------------- actions
\* The program goes on calling until MaxSteps calls were made or one panicked.
Running == Len(calls) <= MaxSteps /\ ret.result # "Panic"

Call(c, r) ==
    /\ Running
    /\ prev' = m
    /\ m' = r.m
    /\ ret' = r.ret
    /\ calls' = Append(calls, c)
    /\ UNCHANGED overflow_checks

Get ==
    \E row \in Indices(ROWS(m)), col \in Indices(COLS(m)) :
        Call([op |-> "get", row |-> row, col |-> col],
             [m |-> m, ret |-> get(m, row, col)])

MulAssign ==
    \E coef \in Factors :
        Call([op |-> "mul_assign", coef |-> coef], mul_assign(m, coef))

AddAssign ==
    \E d \in Arrays(ROWS(m), COLS(m)) \cup
             (IF IsSquare(m) THEN {nil(ROWS(m)).data} ELSE {}) :
        Call([op |-> "add_assign", other |-> from(d)], add_assign(m, from(d)))

Mul ==
    \E k \in Dims :
        \E d \in Arrays(COLS(m), k) \cup
                 (IF k = COLS(m) THEN {identity(k).data} ELSE {}) :
            Call([op |-> "mul", other |-> from(d)], mul(m, from(d)))

Permute ==
    /\ IsSquare(m)
    /\ \E source \in Indices(ROWS(m)), target \in Indices(ROWS(m)) :
        Call([op |-> "permute", source |-> source, target |-> target],
             permute(m, source, target))

Dilate ==
    /\ IsSquare(m)
    /\ \E row \in Indices(ROWS(m)), factor \in Factors :
        Call([op |-> "dilate", row |-> row, factor |-> factor],
             dilate(m, row, factor))

Transvect ==
    /\ IsSquare(m)
    /\ \E source \in Indices(ROWS(m)), other \in Indices(ROWS(m)) :
        Call([op |-> "transvect", source |-> source, other |-> other],
             transvect(m, source, other))

Next ==
    \/ Get
    \/ MulAssign
    \/ AddAssign
    \/ Mul
    \/ Permute
    \/ Dilate
    \/ Transvect

Spec == Init /\ [][Next]_vars

\* The last call, and the call before it.
last == calls[Len(calls)]
Called(op) == Len(calls) > 1 /\ last.op = op

\* ================================================================ claims
\* Arguments and shapes of the last call.
InRange(i, self) == i < ROWS(self)
RowsOf(self) == 0..(ROWS(self) - 1)
ColsOf(self) == 0..(COLS(self) - 1)

\* The claims' sums and products are read in the coefficient type: a u8 result
\* is the integer result modulo 2^8.
InU8(x) == x % U8Modulus

\* The sum over p in [0, Q) of left[i][p] * right[p][j], in the integers.
RECURSIVE SumOfProducts(_, _, _, _, _)
SumOfProducts(left, right, i, j, p) ==
    IF p >= COLS(left) THEN 0
    ELSE left.data[i][p] * right.data[p][j] + SumOfProducts(left, right, i, j, p + 1)

\* ---------------------------------------------------------------- C1
\* C1: left * right is an R x K matrix whose entry (i, j) is the sum over p of
\* left[i][p] * right[p][j], every entry written before it is returned.
C1_MulIsMatrixProduct ==
    Called("mul") =>
        /\ ret = Ok
        /\ ROWS(m) = ROWS(prev)
        /\ COLS(m) = COLS(last.other)
        /\ \A i \in RowsOf(m), j \in ColsOf(m) :
              /\ m.data[i][j] # Uninit
              /\ m.data[i][j] = InU8(SumOfProducts(prev, last.other, i, j, 0))

\* What the code does give: a product that returns has every entry written and
\* equal to the sum in u8, and it returns unless overflow checks are on and a
\* sum leaves u8.
MulReturnsWrappedProduct ==
    Called("mul") =>
        /\ ret.result \in {"Ok", "Panic"}
        /\ ret = Ok =>
              /\ ROWS(m) = ROWS(prev) /\ COLS(m) = COLS(last.other)
              /\ \A i \in RowsOf(m), j \in ColsOf(m) :
                    m.data[i][j] = InU8(SumOfProducts(prev, last.other, i, j, 0))
        /\ ret = Panic =>
              /\ overflow_checks
              /\ \E i \in RowsOf(prev), j \in ColsOf(last.other) :
                    SumOfProducts(prev, last.other, i, j, 0) >= U8Modulus

\* ---------------------------------------------------------------- C2
\* C2: for distinct in-range source and other, transvect returns Ok, row
\* source becomes the coefficient-wise sum of the original rows source and
\* other, and every other row (row other included) is unchanged.
C2_TransvectAddsRow ==
    (Called("transvect") /\ InRange(last.source, prev) /\ InRange(last.other, prev)
        /\ last.source # last.other) =>
        /\ ret = Ok
        /\ \A j \in ColsOf(prev) :
              m.data[last.source][j] =
                  InU8(prev.data[last.source][j] + prev.data[last.other][j])
        /\ \A i \in RowsOf(prev) : i # last.source => m.data[i] = prev.data[i]

\* What the code does give: the row sum whenever the call returns; it panics
\* only with overflow checks on, on a sum that leaves u8.
TransvectReturnsWrappedSum ==
    (Called("transvect") /\ InRange(last.source, prev) /\ InRange(last.other, prev)
        /\ last.source # last.other) =>
        /\ ret.result \in {"Ok", "Panic"}
        /\ ret = Ok =>
              \A j \in ColsOf(prev) :
                  m.data[last.source][j] =
                      InU8(prev.data[last.source][j] + prev.data[last.other][j])
        /\ ret = Panic =>
              /\ overflow_checks
              /\ \E j \in ColsOf(prev) :
                    prev.data[last.source][j] + prev.data[last.other][j] >= U8Modulus
        /\ \A i \in RowsOf(prev) : i # last.source => m.data[i] = prev.data[i]

\* ---------------------------------------------------------------- C3
\* C3: transvect returns exactly one of Err(OutOfBounds) (iff an index is
\* >= SIZE), Err(WrongOperation) (iff both are < SIZE and equal), Ok otherwise.
C3_TransvectOutcome ==
    Called("transvect") =>
        LET oob == ~InRange(last.source, prev) \/ ~InRange(last.other, prev)
            same == ~oob /\ last.source = last.other
        IN  /\ ret \in {Ok, OutOfBounds, WrongOperation}
            /\ (ret = OutOfBounds) <=> oob
            /\ (ret = WrongOperation) <=> same
            /\ (ret = Ok) <=> (~oob /\ ~same)

\* What the code does give: the two errors are classified as claimed.
TransvectErrors ==
    Called("transvect") =>
        LET oob == ~InRange(last.source, prev) \/ ~InRange(last.other, prev)
            same == ~oob /\ last.source = last.other
        IN  /\ (ret = OutOfBounds) <=> oob
            /\ (ret = WrongOperation) <=> same
            /\ (~oob /\ ~same) => ret.result \in {"Ok", "Panic"}

\* ---------------------------------------------------------------- C4
\* C4: a permute, dilate or transvect call that returns an error
\* (OutOfBounds or WrongOperation) leaves the matrix as it was before the call.
C4_FailedCallLeavesMatrix ==
    (Len(calls) > 1 /\ last.op \in {"permute", "dilate", "transvect"}
        /\ ret \in {OutOfBounds, WrongOperation}) => m = prev

C4_Witness ==
    /\ Called("transvect") /\ ret = WrongOperation
    /\ last.source = 1 /\ last.other = 1
    /\ prev.data = setup_3x3 /\ m = prev

\* ---------------------------------------------------------------- C5
\* C5: permute returns Err(OutOfBounds) iff source >= SIZE or target >= SIZE;
\* otherwise Ok, rows source and target exchanged, every other row unchanged,
\* and the matrix unchanged when source = target.
C5_PermuteSwapsRows ==
    Called("permute") =>
        LET oob == ~InRange(last.source, prev) \/ ~InRange(last.target, prev)
        IN  /\ (ret = OutOfBounds) <=> oob
            /\ ~oob =>
                  /\ ret = Ok
                  /\ m.data[last.source] = prev.data[last.target]
                  /\ m.data[last.target] = prev.data[last.source]
                  /\ \A i \in RowsOf(prev) :
                        i \notin {last.source, last.target} => m.data[i] = prev.data[i]
                  /\ last.source = last.target => m = prev

C5_Witness ==
    /\ Called("permute") /\ ret = Ok
    /\ last.source = 0 /\ last.target = 1
    /\ prev.data = setup_3x3
    /\ m.data[0] = prev.data[1] /\ m.data[1] = prev.data[0] /\ m # prev

\* ---------------------------------------------------------------- C6
\* C6: dilate returns Err(OutOfBounds) iff row >= SIZE; otherwise Ok, every
\* coefficient of the row is its original value times factor, and every other
\* row is unchanged.
C6_DilateScalesRow ==
    Called("dilate") =>
        /\ (ret = OutOfBounds) <=> ~InRange(last.row, prev)
        /\ InRange(last.row, prev) =>
              /\ ret = Ok
              /\ \A j \in ColsOf(prev) :
                    m.data[last.row][j] = InU8(prev.data[last.row][j] * last.factor)
              /\ \A i \in RowsOf(prev) : i # last.row => m.data[i] = prev.data[i]

\* What the code does give.
DilateReturnsWrappedProduct ==
    Called("dilate") =>
        /\ (ret = OutOfBounds) <=> ~InRange(last.row, prev)
        /\ InRange(last.row, prev) =>
              /\ ret.result \in {"Ok", "Panic"}
              /\ ret = Ok =>
                    \A j \in ColsOf(prev) :
                        m.data[last.row][j] =
                            InU8(prev.data[last.row][j] * last.factor)
              /\ ret = Panic =>
                    /\ overflow_checks
                    /\ \E j \in ColsOf(prev) :
                          prev.data[last.row][j] * last.factor >= U8Modulus
              /\ \A i \in RowsOf(prev) : i # last.row => m.data[i] = prev.data[i]

\* ---------------------------------------------------------------- C7
\* C7: identity() is nil() with 1 on the diagonal, nil() is all 0, and for
\* every N x N matrix A, identity() * A = A and A * identity() = A.
IsNil(self) ==
    IsSquare(self) /\ \A i \in RowsOf(self), j \in ColsOf(self) : self.data[i][j] = 0
IsIdentity(self) ==
    /\ IsSquare(self)
    /\ \A i \in RowsOf(self), j \in ColsOf(self) :
          self.data[i][j] = IF i = j THEN 1 ELSE 0

C7_IdentityLaw ==
    /\ (Len(calls) = 1 /\ last.op = "nil") => (IsNil(m) /\ ROWS(m) = last.SIZE)
    /\ (Len(calls) = 1 /\ last.op = "identity") =>
          (IsIdentity(m) /\ ROWS(m) = last.SIZE)
    /\ (Len(calls) = 2 /\ calls[1].op = "identity" /\ last.op = "mul") =>
          (ret = Ok /\ m = last.other)
    /\ (Called("mul") /\ last.other = identity(COLS(prev))) =>
          (ret = Ok /\ m = prev)

C7_Witness ==
    /\ Len(calls) = 2 /\ calls[1].op = "identity" /\ calls[1].SIZE = 3
    /\ last.op = "mul" /\ last.other.data = setup_3x3
    /\ IsIdentity(prev) /\ ret = Ok /\ m.data = setup_3x3

\* ---------------------------------------------------------------- C8
\* C8: after A += B every A[i][j] is the original A[i][j] plus B[i][j]; adding
\* nil() leaves a square matrix unchanged.
C8_AddAssignAddsCoefficients ==
    Called("add_assign") =>
        /\ ret = Ok
        /\ \A i \in RowsOf(prev), j \in ColsOf(prev) :
              m.data[i][j] = InU8(prev.data[i][j] + last.other.data[i][j])
        /\ IsNil(last.other) => m = prev

\* What the code does give.
AddAssignReturnsWrappedSum ==
    Called("add_assign") =>
        /\ ret.result \in {"Ok", "Panic"}
        /\ ret = Ok =>
              \A i \in RowsOf(prev), j \in ColsOf(prev) :
                  m.data[i][j] = InU8(prev.data[i][j] + last.other.data[i][j])
        /\ ret = Panic =>
              /\ overflow_checks
              /\ \E i \in RowsOf(prev), j \in ColsOf(prev) :
                    prev.data[i][j] + last.other.data[i][j] >= U8Modulus
        /\ IsNil(last.other) => (ret = Ok /\ m = prev)

\* ---------------------------------------------------------------- C9
\* C9: Matrix::from(d).get(row, col) is Some(d[row][col]) when row < R and
\* col < K, and None otherwise.
C9_FromGetRoundTrip ==
    (Len(calls) = 2 /\ calls[1].op = "from" /\ last.op = "get") =>
        LET d == calls[1].array
        IN  IF last.row < Size(d) /\ last.col < Size(d[0])
            THEN ret = Some(d[last.row][last.col])
            ELSE ret = None

C9_Witness ==
    /\ Len(calls) = 2 /\ calls[1].op = "from" /\ calls[1].array = setup_3x3
    /\ last.op = "get" /\ last.row = 2 /\ last.col = 1
    /\ ret = Some(5)

\* ---------------------------------------------------------------- C10
\* C10: over u8 coefficients, *= scalar, += matrix and the matrix product
\* always complete and yield a result, never an error or abort.
C10_ArithmeticNeverFails ==
    (Len(calls) > 1 /\ last.op \in {"mul_assign", "add_assign", "mul"}) => ret = Ok

\* What the code does give: they fail only by panicking, only with overflow
\* checks on.
ArithmeticFailsOnlyByOverflowPanic ==
    (Len(calls) > 1 /\ last.op \in {"mul_assign", "add_assign", "mul"}) =>
        (ret = Ok \/ (ret = Panic /\ overflow_checks))

====
